---------------------------- MODULE Spec2Model ----------------------------
(***************************************************************************)
(* iroha_network: a request/response layer over TCP.                       *)
(*                                                                         *)
(*   - the wire codec: From<Request> for Vec<u8> and                       *)
(*     TryFrom<Vec<u8>> for Request;                                       *)
(*   - the client call Network::send_request_to;                           *)
(*   - the acceptor Network::listen and the exchange helper                *)
(*     Network::handle_message_async, with a State<usize> counter shared   *)
(*     by the request handlers.                                            *)
(*                                                                         *)
(* Bytes are naturals 0..255, byte strings are sequences of bytes.         *)
(* SpecCodec applies the codec to bounded inputs; Spec runs the clients,   *)
(* the listener and the connection tasks, one step per await point.        *)
(***************************************************************************)
EXTENDS Naturals, Sequences, FiniteSets

VARIABLES
    codec,      \* the codec under test: input, output, position
    mode,       \* how the caller's connection handler runs the exchange
    listener,   \* Network::listen: position, awaited connection, result
    backlog,    \* connections established and not yet accepted, in order
    accepted,   \* connections in the order listen accepted them
    client,     \* per call of send_request_to: position, request, result
    conn,       \* per connection: bytes in flight, which ends are closed
    task,       \* per connection: handle_message_async's position and locals
    counter,    \* the usize behind State<usize>
    lock,       \* the Mutex of State: 0 when free, else the holder's connection
    handler,    \* what the caller's request handler returns
    req,        \* the Request the clients send
    faults      \* I/O failures and short reads so far

vars == <<codec, mode, listener, backlog, accepted, client, conn, task,
          counter, lock, handler, req, faults>>

\* ------------------------------------------------------------------ bounds

\* Longest byte string given to the codec (route and payload together).
MaxLen == 4

\* Client calls (connections) in one run.
MaxCalls == 2

\* Longest read that returns less than what is available.
MaxShortRead == 2

\* I/O failures and short reads in one run.
MaxFaults == 1

\* ------------------------------------------------------- program constants

BUFFER_SIZE == 2048

\* b"\n"[0], the byte try_from splits at.
LF == 10

\* The first byte of the separator b"\r\n" that from writes.
CR == 13

\* ------------------------------------------------------------------ helpers

Min(a, b) == IF a <= b THEN a ELSE b

IsPrefix(p, s) == Len(p) <= Len(s) /\ SubSeq(s, 1, Len(p)) = p

\* The bytes the codec is tried on: the two separator bytes, an ASCII letter
\* and the two bytes of U+00E9 (0xC3 0xA9), each of which alone is not UTF-8.
Alphabet == {LF, CR, 97, 195, 169}

RECURSIVE BytesUpTo(_)
BytesUpTo(n) ==
    IF n = 0 THEN {<<>>}
    ELSE LET shorter == BytesUpTo(n - 1)
         IN  shorter \cup {Append(s, b) : s \in shorter, b \in Alphabet}

\* ------------------------------------------------------------------- codec

\* A continuation byte 0x80..0xBF.
IsCont(b) == b >= 128 /\ b <= 191

\* String::from_utf8's validity check, from byte i of s on.
RECURSIVE Utf8From(_, _)
Utf8From(s, i) ==
    IF i > Len(s) THEN TRUE
    ELSE LET b == s[i]
         IN  IF b < 128 THEN Utf8From(s, i + 1)
             ELSE IF b >= 194 /\ b <= 223
               THEN i + 1 <= Len(s) /\ IsCont(s[i + 1]) /\ Utf8From(s, i + 2)
             ELSE IF b >= 224 /\ b <= 239
               THEN /\ i + 2 <= Len(s)
                    /\ IsCont(s[i + 1])
                    /\ (b = 224 => s[i + 1] >= 160)
                    /\ (b = 237 => s[i + 1] <= 159)
                    /\ IsCont(s[i + 2])
                    /\ Utf8From(s, i + 3)
             ELSE IF b >= 240 /\ b <= 244
               THEN /\ i + 3 <= Len(s)
                    /\ IsCont(s[i + 1])
                    /\ (b = 240 => s[i + 1] >= 144)
                    /\ (b = 244 => s[i + 1] <= 143)
                    /\ IsCont(s[i + 2])
                    /\ IsCont(s[i + 3])
                    /\ Utf8From(s, i + 4)
             ELSE FALSE

from_utf8_ok(s) == Utf8From(s, 1)

\* struct Request { uri_path: String, payload: Vec<u8> }
Request(uri_path, payload) == [uri_path |-> uri_path, payload |-> payload]

\* An encoding that separates the route from the payload by 0x0A alone.
from_lf_only(request) == request.uri_path \o <<LF>> \o request.payload

\* impl From<Request> for Vec<u8>: uri_path, b"\r\n", payload.
from(request) == request.uri_path \o <<CR, LF>> \o request.payload

\* bytes.split(|byte| *byte == b"\n"[0]): the subslices between the matching
\* bytes, which are in none of them; an input without a match (the empty one
\* too) gives one subslice, the input.
RECURSIVE split(_)
split(bytes) ==
    IF \A i \in 1..Len(bytes) : bytes[i] # LF THEN <<bytes>>
    ELSE LET at == CHOOSE i \in 1..Len(bytes) :
                       /\ bytes[i] = LF
                       /\ \A j \in 1..(i - 1) : bytes[j] # LF
         IN  <<SubSeq(bytes, 1, at - 1)>>
                 \o split(SubSeq(bytes, at + 1, Len(bytes)))

\* split_iter.flatten().cloned().collect() over the subslices left.
RECURSIVE flatten(_)
flatten(slices) ==
    IF slices = <<>> THEN <<>> ELSE Head(slices) \o flatten(Tail(slices))

\* The end of the range url[..(url.len() - 1)].
url_end(url) == Len(url) - 1

\* impl TryFrom<Vec<u8>> for Request.  split yields at least one subslice, so
\* ok_or("Failed to get url.") never fails.  With an empty url the usize
\* subtraction url.len() - 1 overflows: a build with overflow checks panics
\* there, one without wraps to usize::MAX and the slice index panics; the
\* call panics either way.
try_from(bytes) ==
    LET split_iter == split(bytes)
        url        == Head(split_iter)
        payload    == flatten(Tail(split_iter))
    IN  IF Len(url) = 0 THEN [kind |-> "panic"]
        ELSE LET path == SubSeq(url, 1, url_end(url))
             IN  IF from_utf8_ok(path)
                   THEN [kind |-> "ok", request |-> Request(path, payload)]
                   ELSE [kind |-> "err"]


\* ------------------------------------------------------- the codec applied

NoRequest == Request(<<>>, <<>>)

\* Request::new over the bounded inputs: uri_path is a String, so UTF-8.
Requests ==
    UNION {{Request(r, p) : p \in BytesUpTo(MaxLen - Len(r))} :
               r \in {x \in BytesUpTo(MaxLen) : from_utf8_ok(x)}}

CodecOff ==
    [pc |-> "off", origin |-> "none", request |-> NoRequest, bytes |-> <<>>,
     result |-> [kind |-> "none"]]

\* request.into()
Encode ==
    /\ codec.pc = "built"
    /\ codec' = [codec EXCEPT !.pc = "encoded", !.bytes = from(codec.request)]

\* Request::try_from(bytes)
Decode ==
    /\ codec.pc \in {"encoded", "raw"}
    /\ codec' = [codec EXCEPT !.pc = "decoded", !.result = try_from(codec.bytes)]


\* -------------------------------------------------------------- the network

Calls == 1..MaxCalls

\* "/ping"
Ping == <<47, 112, 105, 110, 103>>

\* "pong".as_bytes()
Pong == <<112, 111, 110, 103>>

\* A response one byte longer than the read window.
Big == [i \in 1..(BUFFER_SIZE + 1) |-> 97]

\* The requests the clients send: the tests' Request::new("/ping", vec![]), and
\* a route of one two-byte character.
ClientRequests == {Request(Ping, <<>>), Request(<<195, 169>>, <<>>)}

\* The request handlers a caller may pass: each takes the lock and increments
\* the counter, as handle_request of single_threaded_async_stateful does, and
\* returns Ok("pong") (the tests'), Ok of an oversized response, Ok of an
\* empty response, or Err.
Handlers == {"pong", "big", "empty", "fail"}

\* The Response the request handler returns when it returns Ok.
response ==
    IF handler = "pong" THEN Pong ELSE IF handler = "big" THEN Big ELSE <<>>

\* A read into a buffer that grows to hold all that is ready.
ReadAll(avail) == Len(avail)

\* The most one read returns: buffer is [0u8; BUFFER_SIZE].
ReadMax(avail) == Min(Len(avail), BUFFER_SIZE)

\* The sizes a short read may return with `avail` ready.
ShortReads(avail) == {n \in 1..MaxShortRead : n < ReadMax(avail)}

\* A lock that never makes its caller wait.
NoLock(c) == TRUE

\* state.lock().await completes for c when the Mutex is free.
LockFree(c) == lock = 0

\* An acceptor that polls for the next connection while a handler is pending.
PollsWhilePending == listener.pc \in {"accept", "await"}

\* listener.incoming().next().await is polled only between two iterations of
\* the while loop, never while handler(...).await is pending.
ListenerPolls == listener.pc = "accept"

InBacklog(d) == \E i \in 1..Len(backlog) : backlog[i] = d

\* The environment misbehaves (an I/O call fails, a read comes short).
Fault == faults < MaxFaults /\ faults' = faults + 1

\* The server's end of connection `closing` is dropped (0: none) after
\* `wrote` was written to it, and with the listener the connections not yet
\* accepted.  What a closed end has not read is discarded.
DropStreams(closing, wrote, listenerDropped) ==
    conn' = [d \in Calls |->
               IF d = closing
                 THEN [conn[d] EXCEPT !.sclosed = TRUE, !.c2s = <<>>,
                          !.s2c = IF conn[d].cclosed THEN <<>> ELSE @ \o wrote]
               ELSE IF listenerDropped /\ InBacklog(d)
                 THEN [conn[d] EXCEPT !.sclosed = TRUE, !.c2s = <<>>]
               ELSE conn[d]]

\* handle_message_async returns (or unwinds) for c with its locals as given:
\* its stream is dropped.  Awaited by listen (handle_connection of the tests),
\* Err goes through the `?` of line 94 and a panic unwinds listen too; the
\* listener is dropped then.
Return(c, locals, wrote, result, cause) ==
    LET ends == mode = "inline" /\ result # "ok"
    IN  /\ task' = [task EXCEPT ![c] = [locals EXCEPT !.pc = "done",
                                           !.result = result, !.cause = cause]]
        /\ listener' =
              IF mode = "spawn" THEN listener
              ELSE IF result = "ok"
                THEN [listener EXCEPT !.pc = "accept", !.cur = 0]
              ELSE [listener EXCEPT !.pc = "done", !.cur = 0,
                       !.result = IF result = "err" THEN "handler_err"
                                                    ELSE "panicked"]
        /\ DropStreams(c, wrote, ends)
        /\ backlog' = IF ends THEN <<>> ELSE backlog

\* ----------------------------------------------- Network::send_request_to

\* The call's record once it has made the I/O call `step`.
Attempted(c, step) ==
    [client[c] EXCEPT
        !.connects = IF step = "connect" THEN @ + 1 ELSE @,
        !.writes   = IF step = "write" THEN @ + 1 ELSE @,
        !.flushes  = IF step = "flush" THEN @ + 1 ELSE @,
        !.reads    = IF step = "read" THEN @ + 1 ELSE @]

\* A client that starts over when an I/O call fails.
ClientRetry(c, cause) ==
    /\ Fault
    /\ client' = [client EXCEPT ![c] = [Attempted(c, cause) EXCEPT !.pc = "start"]]
    /\ UNCHANGED conn

\* The I/O call `cause` fails and the call ends with Err(e.to_string()): `?`
\* returns, stream is dropped.
ClientFail(c, cause) ==
    /\ Fault
    /\ client' = [client EXCEPT ![c] = [Attempted(c, cause) EXCEPT
                                          !.pc = "done", !.result = "err",
                                          !.cause = cause]]
    /\ conn' = [conn EXCEPT ![c].cclosed = TRUE, ![c].s2c = <<>>]

\* A client that takes the response's last byte for a terminator and drops it.
ClientOkTrimmed(c, n) ==
    /\ client' = [client EXCEPT ![c].pc = "done", ![c].result = "ok",
                     ![c].reads = @ + 1,
                     ![c].response =
                         SubSeq(conn[c].s2c, 1, IF n = 0 THEN 0 ELSE n - 1)]
    /\ conn' = [conn EXCEPT ![c].cclosed = TRUE, ![c].s2c = <<>>]

\* A client that reports a read of 0 bytes as an error.
ClientOkEofIsError(c, n) ==
    /\ client' = [client EXCEPT ![c].pc = "done",
                     ![c].result = IF n = 0 THEN "err" ELSE "ok",
                     ![c].cause = IF n = 0 THEN "eof" ELSE "none",
                     ![c].reads = @ + 1,
                     ![c].response = SubSeq(conn[c].s2c, 1, n)]
    /\ conn' = [conn EXCEPT ![c].cclosed = TRUE, ![c].s2c = <<>>]

\* Ok(buffer[..read_size].to_vec()) with read_size = n; stream is dropped.
ClientOk(c, n) ==
    /\ client' = [client EXCEPT ![c].pc = "done", ![c].result = "ok",
                     ![c].reads = @ + 1,
                     ![c].response = SubSeq(conn[c].s2c, 1, n)]
    /\ conn' = [conn EXCEPT ![c].cclosed = TRUE, ![c].s2c = <<>>]

\* TcpStream::connect(server_url).await.map_err(|e| e.to_string())?
\* The calls are numbered in the order they start.
ClientConnect(c) ==
    /\ client[c].pc = "start"
    /\ \A d \in Calls : d < c => client[d].pc # "start"
    /\ \/ /\ listener.pc \in {"accept", "await"}
          /\ client' = [client EXCEPT ![c].pc = "connected",
                           ![c].connects = @ + 1]
          /\ backlog' = Append(backlog, c)
          /\ UNCHANGED <<conn, faults>>
       \/ /\ ClientFail(c, "connect")
          /\ UNCHANGED backlog
    /\ UNCHANGED <<codec, mode, listener, accepted, task, counter, lock, handler, req>>

\* let payload: Vec<u8> = request.into();
\* stream.write_all(&payload).await.map_err(|e| e.to_string())?;
\* stream.flush().await.map_err(|e| e.to_string())?;
\* A TcpStream has nothing to flush, so the two awaits are one step; a failed
\* write_all sends nothing, a failed flush follows a complete write.
ClientWrite(c) ==
    /\ client[c].pc = "connected"
    /\ \/ /\ client' = [client EXCEPT ![c].pc = "sent", ![c].writes = @ + 1,
                           ![c].flushes = @ + 1]
          /\ conn' = [conn EXCEPT ![c].c2s =
                         IF conn[c].sclosed THEN <<>>
                         ELSE @ \o from(req)]
          /\ UNCHANGED faults
       \/ ClientFail(c, "write")
       \/ /\ Fault
          /\ client' = [client EXCEPT ![c].pc = "done", ![c].result = "err",
                           ![c].cause = "flush", ![c].writes = @ + 1,
                           ![c].flushes = @ + 1]
          /\ conn' = [conn EXCEPT ![c].cclosed = TRUE, ![c].s2c = <<>>,
                         ![c].c2s = IF conn[c].sclosed THEN <<>>
                                    ELSE @ \o from(req)]
    /\ UNCHANGED <<codec, mode, listener, backlog, accepted, task, counter,
                   lock, handler, req>>

\* let read_size = stream.read(&mut buffer).await.map_err(|e| e.to_string())?;
\* Ok(buffer[..read_size].to_vec()): what is ready up to the buffer's size,
\* less of it, 0 bytes at the end of the stream, or a failure.
ClientRead(c) ==
    /\ client[c].pc = "sent"
    /\ \/ /\ conn[c].s2c # <<>>
          /\ ClientOk(c, ReadMax(conn[c].s2c))
          /\ UNCHANGED faults
       \/ /\ \E n \in ShortReads(conn[c].s2c) : ClientOk(c, n)
          /\ Fault
       \/ /\ conn[c].s2c = <<>>
          /\ conn[c].sclosed
          /\ ClientOk(c, 0)
          /\ UNCHANGED faults
       \/ ClientFail(c, "read")
    /\ UNCHANGED <<codec, mode, listener, backlog, accepted, task, counter,
                   lock, handler, req>>

\* --------------------------------------------------------- Network::listen

\* TcpListener::bind(server_url).await.map_err(|e| e.to_string())?
Bind ==
    /\ listener.pc = "bind"
    /\ \/ /\ listener' = [listener EXCEPT !.pc = "accept"]
          /\ UNCHANGED faults
       \/ /\ Fault
          /\ listener' = [listener EXCEPT !.pc = "done", !.result = "bind_err"]
    /\ UNCHANGED <<codec, mode, backlog, accepted, client, conn, task,
                   counter, lock, handler, req>>

\* incoming().next().await gives Some(Ok(stream)): handler(Arc::clone(&state),
\* Box::new(stream)) is called.  handle_connection of the tests awaits
\* handle_message_async, so listen awaits it too ("inline"); a caller's handler
\* that spawns the exchange as a task returns Ok(()) at once ("spawn").
Accept ==
    /\ ListenerPolls
    /\ backlog # <<>>
    /\ LET c == Head(backlog)
       IN  /\ backlog' = Tail(backlog)
           /\ accepted' = Append(accepted, c)
           /\ task' = [task EXCEPT ![c].pc = "read"]
           /\ listener' = IF mode = "inline"
                            THEN [listener EXCEPT !.pc = "await", !.cur = c]
                            ELSE [listener EXCEPT !.pc = "accept"]
    /\ UNCHANGED <<codec, mode, client, conn, counter, lock, handler, req, faults>>

\* A listen that notes a failed accept and goes on to the next connection.
AcceptFailContinues ==
    /\ ListenerPolls
    /\ Fault
    /\ listener' = [listener EXCEPT !.result = "accept_err"]
    /\ UNCHANGED <<codec, mode, backlog, accepted, client, conn, task, counter,
                   lock, handler, req>>

\* incoming().next().await gives Some(Err(e)): stream.map_err(..)? returns
\* before handler is called; the listener is dropped.
AcceptFail ==
    /\ ListenerPolls
    /\ Fault
    /\ listener' = [listener EXCEPT !.pc = "done", !.result = "accept_err"]
    /\ DropStreams(0, <<>>, TRUE)
    /\ backlog' = <<>>
    /\ UNCHANGED <<codec, mode, accepted, client, task, counter, lock, handler, req>>


\* ------------------------------------------ Network::handle_message_async

\* let bytes = buffer[..read_size].to_vec();
\* let request: Request = bytes.try_into().map_err(|e| e.to_string())?;
\* then handler(state, request) is called and runs to its state.lock().await.
Decoded(c, bytes) ==
    LET r    == try_from(bytes)
        read == [task[c] EXCEPT !.reads = @ + 1, !.bytes = bytes]
    IN  \/ /\ r.kind = "ok"
           /\ task' = [task EXCEPT ![c] = [read EXCEPT !.pc = "lock",
                                              !.invoked = @ + 1,
                                              !.request = r.request]]
           /\ conn' = [conn EXCEPT ![c].c2s = SubSeq(@, Len(bytes) + 1, Len(@))]
           /\ UNCHANGED <<listener, backlog>>
        \/ /\ r.kind = "err"
           /\ Return(c, read, <<>>, "err", "decode")
        \/ /\ r.kind = "panic"
           /\ Return(c, read, <<>>, "panic", "decode")

\* stream.read(&mut buffer).await.expect("Request read failed."): what is
\* ready up to the buffer's size, less of it, 0 bytes at the end of the
\* stream, or a failure, on which expect panics.
TaskRead(c) ==
    /\ task[c].pc = "read"
    /\ \/ /\ conn[c].c2s # <<>>
          /\ Decoded(c, SubSeq(conn[c].c2s, 1, ReadMax(conn[c].c2s)))
          /\ UNCHANGED faults
       \/ /\ \E n \in ShortReads(conn[c].c2s) :
                Decoded(c, SubSeq(conn[c].c2s, 1, n))
          /\ Fault
       \/ /\ conn[c].c2s = <<>>
          /\ conn[c].cclosed
          /\ Decoded(c, <<>>)
          /\ UNCHANGED faults
       \/ /\ Fault
          /\ Return(c, [task[c] EXCEPT !.reads = @ + 1], <<>>, "panic", "read")
    /\ UNCHANGED <<codec, mode, accepted, client, counter, lock, handler, req>>

\* handle_request of the tests: let mut data = state.lock().await; and the
\* load of *data += 1.
HandlerLock(c) ==
    /\ task[c].pc = "lock"
    /\ LockFree(c)
    /\ lock' = c
    /\ task' = [task EXCEPT ![c].pc = "store", ![c].data = counter]
    /\ UNCHANGED <<codec, mode, listener, backlog, accepted, client, conn,
                   counter, handler, req, faults>>

\* An exchange that goes on to write whatever the handler returned.
HandlerStoreIgnoresErr(c) ==
    /\ task[c].pc = "store"
    /\ counter' = task[c].data + 1
    /\ lock' = IF lock = c THEN 0 ELSE lock
    /\ task' = [task EXCEPT ![c].pc = "write"]
    /\ UNCHANGED <<listener, backlog, conn>>
    /\ UNCHANGED <<codec, mode, accepted, client, handler, req, faults>>

\* An exchange whose handler keeps its guard while the response is written.
HandlerStoreKeepsGuard(c) ==
    /\ task[c].pc = "store"
    /\ counter' = task[c].data + 1
    /\ lock' = lock
    /\ IF handler = "fail"
         THEN Return(c, task[c], <<>>, "err", "handler")
         ELSE /\ task' = [task EXCEPT ![c].pc = "write"]
              /\ UNCHANGED <<listener, backlog, conn>>
    /\ UNCHANGED <<codec, mode, accepted, client, handler, req, faults>>

\* The store of *data += 1; then the handler returns, its guard is dropped,
\* and `let response = handler(state, request).await?` takes its result.
HandlerStore(c) ==
    /\ task[c].pc = "store"
    /\ counter' = task[c].data + 1
    /\ lock' = IF lock = c THEN 0 ELSE lock
    /\ IF handler = "fail"
         THEN Return(c, task[c], <<>>, "err", "handler")
         ELSE /\ task' = [task EXCEPT ![c].pc = "write"]
              /\ UNCHANGED <<listener, backlog, conn>>
    /\ UNCHANGED <<codec, mode, accepted, client, handler, req, faults>>

\* An exchange that keeps the connection and reads the next request from it
\* once the response is written.
TaskWriteKeepAlive(c) ==
    /\ task[c].pc = "write"
    /\ task' = [task EXCEPT ![c].pc = "read", ![c].writes = @ + 1,
                            ![c].flushes = @ + 1]
    /\ conn' = [conn EXCEPT ![c].s2c = @ \o response]
    /\ UNCHANGED <<codec, mode, listener, backlog, accepted, client, counter,
                   lock, handler, req, faults>>

\* stream.write_all(&response).await.map_err(|e| e.to_string())?;
\* stream.flush().await.map_err(|e| e.to_string())?; Ok(())
\* As in the client, the two awaits are one step; writes and flushes count
\* the calls made.
TaskWrite(c) ==
    /\ task[c].pc = "write"
    /\ LET wrote == [task[c] EXCEPT !.writes = @ + 1, !.flushes = @ + 1]
       IN  \/ /\ Return(c, wrote, response, "ok", "none")
              /\ UNCHANGED faults
           \/ /\ Fault
              /\ Return(c, [task[c] EXCEPT !.writes = @ + 1], <<>>, "err", "write")
           \/ /\ Fault
              /\ Return(c, wrote, response, "err", "flush")
    /\ UNCHANGED <<codec, mode, accepted, client, counter, lock, handler, req>>

\* ---------------------------------------------------------- specifications

NetIdle ==
    /\ listener = [pc |-> "bind", cur |-> 0, result |-> "running"]
    /\ backlog = <<>>
    /\ accepted = <<>>
    /\ client = [c \in Calls |->
                   [pc |-> "start", connects |-> 0, writes |-> 0,
                    flushes |-> 0, reads |-> 0, result |-> "none",
                    cause |-> "none", response |-> <<>>]]
    /\ conn = [c \in Calls |->
                 [c2s |-> <<>>, s2c |-> <<>>, cclosed |-> FALSE,
                  sclosed |-> FALSE]]
    /\ task = [c \in Calls |->
                 [pc |-> "none", reads |-> 0, bytes |-> <<>>, invoked |-> 0,
                  request |-> NoRequest, data |-> 0,
                  writes |-> 0, flushes |-> 0, result |-> "none",
                  cause |-> "none"]]
    /\ counter = 0
    /\ lock = 0
    /\ faults = 0

\* Arc::new(Mutex::new(0)), no client yet, listen about to bind.  The
\* oversized and the empty response concern the client's read: they are run
\* under the tests' connection handler only.
Init ==
    /\ codec = CodecOff
    /\ mode \in {"inline", "spawn"}
    /\ handler \in Handlers
    /\ handler \in {"big", "empty"} => mode = "inline"
    /\ req \in ClientRequests
    /\ NetIdle

Next ==
    \/ Bind
    \/ Accept
    \/ AcceptFail
    \/ \E c \in Calls : ClientConnect(c)
    \/ \E c \in Calls : ClientWrite(c)
    \/ \E c \in Calls : ClientRead(c)
    \/ \E c \in Calls : TaskRead(c)
    \/ \E c \in Calls : HandlerLock(c)
    \/ \E c \in Calls : HandlerStore(c)
    \/ \E c \in Calls : TaskWrite(c)

Spec == Init /\ [][Next]_vars

\* The codec on every bounded input: a Request to encode and decode back, or
\* raw bytes to decode.
InitCodec ==
    /\ codec \in
          {[pc |-> "built", origin |-> "request", request |-> q,
            bytes |-> <<>>, result |-> [kind |-> "none"]] : q \in Requests}
          \cup
          {[pc |-> "raw", origin |-> "bytes", request |-> NoRequest,
            bytes |-> b, result |-> [kind |-> "none"]] : b \in BytesUpTo(MaxLen)}
    /\ mode = "inline"
    /\ handler = "pong"
    /\ req = NoRequest
    /\ NetIdle

NetUnchanged ==
    UNCHANGED <<mode, listener, backlog, accepted, client, conn, task,
                counter, lock, handler, req, faults>>

NextCodec ==
    \/ Encode /\ NetUnchanged
    \/ Decode /\ NetUnchanged

SpecCodec == InitCodec /\ [][NextCodec]_vars


\* ------------------------------------------------------------------ claims

HasLF(s) == \E i \in 1..Len(s) : s[i] = LF

\* The place of the first 0x0A byte of s (1-based).
FirstLF(s) == CHOOSE i \in 1..Len(s) : s[i] = LF /\ \A j \in 1..(i - 1) : s[j] # LF

NoSeparatorByte(s) == \A i \in 1..Len(s) : s[i] # LF /\ s[i] # CR

\* The bytes before the first newline, without a trailing carriage return.
HeaderOf(s) ==
    LET head == SubSeq(s, 1, FirstLF(s) - 1)
    IN  IF head # <<>> /\ head[Len(head)] = CR
          THEN SubSeq(head, 1, Len(head) - 1)
          ELSE head

\* C1: for every route without 0x0A and 0x0D and ANY payload,
\* decode(encode(route, payload)) succeeds and returns (route, payload).
RoundTrip ==
    (/\ codec.pc = "decoded"
     /\ codec.origin = "request"
     /\ NoSeparatorByte(codec.request.uri_path))
    => /\ codec.result.kind = "ok"
       /\ codec.result.request = codec.request

\* C2: decode of a byte sequence with no 0x0A byte fails (the terminator is
\* missing): it never returns a Request.
NoTerminatorFails ==
    (codec.pc = "decoded" /\ ~HasLF(codec.bytes))
    => codec.result.kind # "ok"

\* C3: the payload decode returns is every byte after the first 0x0A byte,
\* verbatim, further 0x0A bytes included; its length is the input's length
\* less the bytes up to and including the first newline.
FirstDelimiterWins ==
    (/\ codec.pc = "decoded"
     /\ HasLF(codec.bytes)
     /\ codec.result.kind = "ok")
    => /\ codec.result.request.payload =
              SubSeq(codec.bytes, FirstLF(codec.bytes) + 1, Len(codec.bytes))
       /\ Len(codec.result.request.payload) =
              Len(codec.bytes) - FirstLF(codec.bytes)

\* C4: the route decode returns is the bytes before the first 0x0A byte with
\* a trailing 0x0D removed if there is one, and nothing removed otherwise.
RouteExtraction ==
    (/\ codec.pc = "decoded"
     /\ HasLF(codec.bytes)
     /\ codec.result.kind = "ok")
    => codec.result.request.uri_path = HeaderOf(codec.bytes)

\* C5: when the bytes handle_message_async read hold no 0x0A byte, the
\* exchange is aborted (it does not end Ok), the request handler is not
\* invoked and nothing is written to the connection.
MalformedRequestAborts ==
    \A c \in Calls :
        (/\ task[c].pc \notin {"none", "read"}
         /\ task[c].cause # "read"
         /\ ~HasLF(task[c].bytes))
        => /\ task[c].pc = "done"
           /\ task[c].result # "ok"
           /\ task[c].invoked = 0
           /\ task[c].writes = 0

\* C6: listen returns only because bind or accept failed; a connection
\* handler returning an error for one connection does not end it.  (A panic
\* of the awaited exchange unwinds listen, which is no return of it.)
ListenEndsOnBindOrAcceptOnly ==
    (listener.pc = "done" /\ listener.result # "panicked")
    => listener.result \in {"bind_err", "accept_err"}

\* No call of send_request_to, no exchange and no connection is under way.
Quiescent ==
    /\ backlog = <<>>
    /\ \A c \in Calls : /\ client[c].pc \in {"start", "done"}
                        /\ task[c].pc \in {"none", "done"}

Started == {c \in Calls : client[c].pc # "start"}

\* The call returned Ok with bytes of the handler's response.
Answered(c) ==
    /\ client[c].pc = "done"
    /\ client[c].result = "ok"
    /\ client[c].response # <<>>

\* C7: no lost update: at quiescence the counter is the number of handler
\* invocations, and when every call made returned the handler's answer it is
\* the number of calls, whether listen awaits each exchange or they run as
\* tasks of their own.
NoLostUpdates ==
    Quiescent =>
        /\ counter = Cardinality({c \in Calls : task[c].invoked = 1})
        /\ (\A c \in Started : Answered(c)) => counter = Cardinality(Started)

TwoAnsweredCallsCounted ==
    /\ Quiescent
    /\ mode = "spawn"
    /\ handler = "pong"
    /\ Cardinality(Started) >= 2
    /\ \A c \in Started : Answered(c) /\ client[c].response = Pong
    /\ counter = Cardinality(Started)

\* The connections whose exchange is under way.
InProgress == {c \in Calls : task[c].pc \in {"read", "lock", "store", "write"}}

\* C8: when the connection handler is awaited by listen, at most one
\* connection handler invocation is under way, it is the one listen awaits,
\* and every connection accepted earlier has been handled to its end.
SequentialAcceptance ==
    mode = "inline" =>
        /\ Cardinality(InProgress) <= 1
        /\ \A c \in InProgress : listener.pc = "await" /\ listener.cur = c
        /\ \A i, j \in 1..Len(accepted) :
              i < j => task[accepted[i]].pc = "done"

SecondAcceptedAfterFirstHandled ==
    /\ mode = "inline"
    /\ Len(accepted) >= 2
    /\ task[accepted[1]].result = "ok"
    /\ accepted[2] \in InProgress

TruncatedNotFailed ==
    \A c \in Calls :
        client[c].pc = "done" =>
            /\ client[c].reads <= 1
            /\ client[c].result = "ok" =>
                  /\ Len(client[c].response) <= BUFFER_SIZE
                  /\ IsPrefix(client[c].response, response)
                  /\ client[c].reads = 1
            /\ faults = 0 => client[c].result = "ok"

OversizedResponseTruncated ==
    \E c \in Calls :
        /\ handler = "big"
        /\ Len(response) > BUFFER_SIZE
        /\ client[c].pc = "done"
        /\ client[c].result = "ok"
        /\ Len(client[c].response) = BUFFER_SIZE

\* C11: end-to-end echo.  Under a request handler that answers the fixed
\* response "pong" whatever it is given, and with no I/O failure and no short
\* read, every call that has ended returned Ok of exactly that response, byte
\* for byte, for each well-formed request.
EndToEndEcho ==
    (handler = "pong" /\ faults = 0)
    => \A c \in Calls :
          client[c].pc = "done"
          => /\ client[c].result = "ok"
             /\ client[c].response = Pong

PingAnsweredPong ==
    /\ handler = "pong"
    /\ faults = 0
    /\ req = Request(Ping, <<>>)
    /\ \E c \in Calls :
          /\ client[c].pc = "done"
          /\ client[c].result = "ok"
          /\ client[c].response = Pong
          /\ task[c].result = "ok"

\* C12: the bytes encode produces are the route's bytes, then 0x0D 0x0A, then
\* the payload's bytes, each unchanged and in place, and nothing else: their
\* length is len(route) + 2 + len(payload), also when the route holds the
\* separator itself.
EncodeLayout ==
    (codec.origin = "request" /\ codec.pc \in {"encoded", "decoded"})
    => LET route   == codec.request.uri_path
           payload == codec.request.payload
           bytes   == codec.bytes
       IN  /\ Len(bytes) = Len(route) + 2 + Len(payload)
           /\ \A i \in 1..Len(route) : bytes[i] = route[i]
           /\ bytes[Len(route) + 1] = 13
           /\ bytes[Len(route) + 2] = 10
           /\ \A j \in 1..Len(payload) : bytes[Len(route) + 2 + j] = payload[j]

SeparatorInRouteEncoded ==
    /\ codec.origin = "request"
    /\ codec.pc = "encoded"
    /\ \E i \in 1..(Len(codec.request.uri_path) - 1) :
          /\ codec.request.uri_path[i] = 13
          /\ codec.request.uri_path[i + 1] = 10
    /\ codec.request.payload # <<>>
    /\ Len(codec.bytes) =
          Len(codec.request.uri_path) + 2 + Len(codec.request.payload)

\* C13: a client call is one cycle with no retry: it connects at most once,
\* writes at most once, flushes at most once and reads at most once, in that
\* order; a call that returned Ok made each of the four calls once; a call
\* that failed at one of them ended with Err and made none of the later ones.
OneCycleNoRetry ==
    \A c \in Calls :
        /\ client[c].connects <= 1
        /\ client[c].writes <= client[c].connects
        /\ client[c].flushes <= client[c].writes
        /\ client[c].reads <= client[c].flushes
        /\ client[c].result = "ok"
              => client[c].pc = "done" /\ client[c].reads = 1
        /\ client[c].cause # "none"
              => /\ client[c].pc = "done"
                 /\ client[c].result = "err"
        /\ client[c].cause = "connect"
              => client[c].connects = 1 /\ client[c].writes = 0
        /\ client[c].cause = "write"
              => client[c].writes = 1 /\ client[c].flushes = 0
        /\ client[c].cause = "flush"
              => client[c].flushes = 1 /\ client[c].reads = 0
        /\ client[c].cause = "read" => client[c].reads = 1

WriteFailureEndedCall ==
    \E c \in Calls :
        /\ client[c].pc = "done"
        /\ client[c].result = "err"
        /\ client[c].cause = "write"
        /\ client[c].connects = 1
        /\ client[c].writes = 1
        /\ client[c].flushes = 0
        /\ client[c].reads = 0

\* C14: bind and accept failures end listen.  When bind has failed listen is
\* over with that error, no connection was accepted and no handler was
\* invoked; when an accept has failed listen is over with that error and no
\* further connection can be accepted; the connection handler has been
\* invoked for the accepted connections and for no other.
BindAcceptFailureEndsListen ==
    /\ listener.result = "bind_err"
          => /\ listener.pc = "done"
             /\ ~ENABLED Accept
             /\ accepted = <<>>
             /\ \A c \in Calls : task[c].pc = "none" /\ task[c].invoked = 0
    /\ listener.result = "accept_err"
          => /\ listener.pc = "done"
             /\ ~ENABLED Accept
    /\ {c \in Calls : task[c].pc # "none"}
          = {accepted[i] : i \in 1..Len(accepted)}
    /\ Cardinality({c \in Calls : task[c].pc # "none"}) = Len(accepted)

AcceptFailedAfterOneAccepted ==
    /\ listener.pc = "done"
    /\ listener.result = "accept_err"
    /\ Len(accepted) = 1
    /\ \E c \in Calls :
          /\ client[c].pc # "start"
          /\ client[c].connects = 1
          /\ task[c].pc = "none"

\* C15: one connection's life runs Accepted, Reading, Decoding, Handling,
\* Writing, Closed in that order, and may go to Closed from any of them: an
\* exchange about to read has read nothing, invoked nothing and written
\* nothing (so Reading is never entered again); one that is handling or about
\* to write has read once, invoked the handler once and not written; one that
\* is over has read exactly once, invoked the handler at most once and
\* written at most one response, and only after the handler was invoked.
ConnectionLifecycle ==
    \A c \in Calls :
        /\ task[c].pc \in {"none", "read"}
              => /\ task[c].reads = 0
                 /\ task[c].invoked = 0
                 /\ task[c].writes = 0
                 /\ task[c].result = "none"
        /\ task[c].pc \in {"lock", "store", "write"}
              => /\ task[c].reads = 1
                 /\ task[c].invoked = 1
                 /\ task[c].writes = 0
                 /\ task[c].result = "none"
        /\ task[c].pc = "done"
              => /\ task[c].reads = 1
                 /\ task[c].invoked <= 1
                 /\ task[c].writes <= task[c].invoked
                 /\ task[c].flushes <= task[c].writes
                 /\ task[c].result \in {"ok", "err", "panic"}
                 /\ task[c].result = "ok"
                       => task[c].writes = 1 /\ task[c].flushes = 1
                 /\ conn[c].sclosed

ExchangeRanToClosed ==
    \E c \in Calls :
        /\ task[c].pc = "done"
        /\ task[c].result = "ok"
        /\ task[c].reads = 1
        /\ task[c].invoked = 1
        /\ task[c].writes = 1
        /\ conn[c].sclosed

\* C16: a handler failure suppresses the response.  Under a request handler
\* that returns Err no exchange ever writes or flushes and nothing reaches
\* the client; an exchange that invoked it is over with that error as its
\* result.  Under any handler a response is written only after the handler
\* was invoked and has returned.
HandlerFailureSuppressesResponse ==
    \A c \in Calls :
        /\ handler = "fail"
              => /\ task[c].writes = 0
                 /\ task[c].flushes = 0
                 /\ task[c].pc # "write"
                 /\ conn[c].s2c = <<>>
                 /\ client[c].response = <<>>
                 /\ (task[c].pc = "done" /\ task[c].invoked = 1)
                       => task[c].result = "err" /\ task[c].cause = "handler"
        /\ task[c].cause = "handler"
              => /\ handler = "fail"
                 /\ task[c].result = "err"
                 /\ task[c].writes = 0
        /\ task[c].writes >= 1
              => /\ task[c].invoked = 1
                 /\ task[c].pc = "done"
                 /\ handler # "fail"

HandlerFailedNothingWritten ==
    /\ handler = "fail"
    /\ \E c \in Calls :
          /\ task[c].pc = "done"
          /\ task[c].invoked = 1
          /\ task[c].result = "err"
          /\ task[c].cause = "handler"
          /\ task[c].writes = 0
          /\ counter >= 1

\* C17: mutual exclusion on the shared state: at most one handler invocation
\* is between taking the lock and releasing it; an invocation that has loaded
\* the value and is about to store it holds the lock, and the value is still
\* the one it loaded, whether exchanges run one at a time or as concurrent
\* tasks.
MutualExclusion ==
    /\ Cardinality({c \in Calls : task[c].pc = "store"}) <= 1
    /\ \A c \in Calls :
          task[c].pc = "store"
          => /\ lock = c
             /\ task[c].data = counter

LockContended ==
    /\ mode = "spawn"
    /\ \E c, d \in Calls :
          /\ c # d
          /\ task[c].pc = "store"
          /\ lock = c
          /\ task[d].pc = "lock"

\* C18: the transport never locks or changes the shared state: a step that
\* changes the counter or the lock is a step of a request handler that an
\* exchange has invoked and that has not returned; after every step the lock
\* is free or held by such a handler, so never across an accept, a read, a
\* write or a flush, error paths included.
TransportLeavesStateAlone ==
    [][/\ (counter' # counter \/ lock' # lock)
          => \E c \in Calls :
                /\ task[c].pc \in {"lock", "store"}
                /\ task'[c].pc # task[c].pc
                /\ task'[c].reads = task[c].reads
                /\ task'[c].writes = task[c].writes
                /\ \A d \in Calls \ {c} : task'[d] = task[d]
                /\ client' = client
                /\ accepted' = accepted
       /\ lock' # 0 => task'[lock'].pc = "store"]_vars

WriteFailedStateKept ==
    \E c \in Calls :
        /\ task[c].pc = "done"
        /\ task[c].result = "err"
        /\ task[c].cause = "write"
        /\ counter = 1
        /\ lock = 0

\* C19: decode is total: for every byte sequence, the empty one and one whose
\* first byte is 0x0A included, decode returns a Request or a decode error
\* and never aborts.
DecodeIsTotal ==
    codec.pc = "decoded" => codec.result.kind \in {"ok", "err"}

\* C20: a silent server abort looks like success to the client.  A call whose
\* read did not fail, made to a server whose exchange wrote no response (it
\* ended on a decode error or a handler error, or never ran) or whose handler
\* answered with zero bytes, returned Ok of the empty response: the two cases
\* give the client the same result.
SilentAbortLooksLikeSuccess ==
    \A c \in Calls :
        (/\ client[c].pc = "done"
         /\ client[c].reads = 1
         /\ client[c].cause # "read"
         /\ task[c].writes = 0 \/ handler = "empty")
        => /\ client[c].result = "ok"
           /\ client[c].response = <<>>
           /\ client[c].flushes = 1
           /\ conn[c].sclosed

DecodeErrorSeenAsEmptyOk ==
    \E c \in Calls :
        /\ task[c].pc = "done"
        /\ task[c].result = "err"
        /\ task[c].cause = "decode"
        /\ task[c].writes = 0
        /\ client[c].pc = "done"
        /\ client[c].flushes = 1
        /\ client[c].result = "ok"
        /\ client[c].response = <<>>

====
